---- MODULE Spec2Model ----
(***************************************************************************)
(* Model of apis/searchcvr.py: the six search operations, the response     *)
(* classification of handle_api_response, the record normalizer            *)
(* format_company_data and the field extractors get_combined_address and   *)
(* get_formatted_date.                                                     *)
(*                                                                         *)
(* Python values.  A str is a sequence of one-character strings, so that   *)
(* split, concatenation and f-string formatting are computed and not       *)
(* assumed.  None and "key not in the dict" are two distinguished          *)
(* sequences.  A dict is a record, a list is a sequence.  A raised         *)
(* exception is a distinguished value of the operator that raises it.      *)
(***************************************************************************)
EXTENDS Integers, Sequences, FiniteSets, TLC

VARIABLES pc, mode, payload, calls, response, outcome,
          address, combined_address, date, formatted_date

vars == <<pc, mode, payload, calls, response, outcome,
          address, combined_address, date, formatted_date>>

----------------------------------------------------------------------------
(* Bounds of the model *)

\* most hits the backend puts in one response
MaxHits == 2

----------------------------------------------------------------------------
(* Python values *)

None == <<"<None>">>
Missing == <<"<missing>">>
KeyError == <<"<KeyError>">>
IndexError == <<"<IndexError>">>

\* str(v) as an f-string renders it
Str(v) == IF v = None THEN <<"N", "o", "n", "e">> ELSE v

\* bool(v) for a str-or-None value
Truthy(v) == v # None /\ v # Missing /\ v # <<>>

\* d.get(key) and d.get(key, default), on the value stored under the key
Get(v) == IF v = Missing THEN None ELSE v
GetOr(v, default) == IF v = Missing THEN default ELSE v

Last(s) == s[Len(s)]

RECURSIVE SplitAcc(_, _, _, _)
SplitAcc(s, sep, cur, acc) ==
    IF s = <<>> THEN Append(acc, cur)
    ELSE IF Head(s) = sep THEN SplitAcc(Tail(s), sep, <<>>, Append(acc, cur))
    ELSE SplitAcc(Tail(s), sep, Append(cur, Head(s)), acc)

\* s.split(sep) for a one-character separator
Split(s, sep) == SplitAcc(s, sep, <<>>, <<>>)

----------------------------------------------------------------------------
(* Field extractors *)

get_formatted_date_reversed(d) ==
    IF d = None THEN None
    ELSE LET parts == Split(d, "-") IN
         IF Len(parts) < 3 THEN IndexError
         ELSE parts[1] \o <<"/">> \o parts[2] \o <<" ", "-", " ">> \o parts[3]

get_formatted_date(d) ==
    IF d = None THEN None
    ELSE LET parts == Split(d, "-") IN
         IF Len(parts) < 3 THEN IndexError
         ELSE parts[3] \o <<"/">> \o parts[2] \o <<" ", "-", " ">> \o parts[1]

\* the argument is company["virksomhedMetadata"]["nyesteBeliggenhedsadresse"]
get_combined_address(a) ==
    IF a.vejnavn = Missing THEN KeyError
    ELSE LET s0 == Str(a.vejnavn) \o <<" ">> \o Str(GetOr(a.husnummerFra, <<>>))
             s1 == IF Truthy(Get(a.husnummerTil))
                   THEN s0 \o <<"-">> \o Str(a.husnummerTil) ELSE s0
             s2 == s1 \o (IF Truthy(GetOr(a.bogstavFra, <<>>))
                          THEN a.bogstavFra ELSE <<>>)
             s3 == IF Truthy(Get(a.bogstavTil))
                   THEN s2 \o <<"-">> \o Str(a.bogstavTil) ELSE s2
         IN  s3 \o (IF Truthy(Get(a.etage))
                    THEN <<",", " ">> \o Str(a.etage) ELSE <<>>)

get_address_field(a, v) == IF a.vejnavn = Missing THEN KeyError ELSE Get(v)

----------------------------------------------------------------------------
(* Sample values *)

Novo == <<"N", "o", "v", "o">>
Unknown == <<"U", "n", "k", "n", "o", "w", "n">>
Cvr1 == <<"1", "0">>
Cvr2 == <<"2", "5">>
Date1 == <<"2", "0", "2", "0", "-", "0", "1", "-", "3", "1">>
Date2 == <<"2", "0", "2", "1", "-", "1", "2", "-", "0", "5">>

SampleAddress ==
    [vejnavn |-> <<"V", "e", "j">>, husnummerFra |-> <<"1", "2">>,
     husnummerTil |-> None, bogstavFra |-> <<"A">>, bogstavTil |-> None,
     etage |-> <<"2">>, postnummer |-> <<"8", "0", "0", "0">>]

Branche == [branchekode |-> <<"6", "2">>, branchetekst |-> <<"I", "T">>]
NoBranche == [branchekode |-> Missing, branchetekst |-> Missing]

\* One raw registry record, hit["_source"]["Vrvirksomhed"], with the nested
\* metadata blocks flattened to the fields the code reads.  Missing marks a
\* key the record does not have.
Companies ==
    { [cvrNummer |-> c, navn |-> n, nyesteHovedbranche |-> b,
       nyesteBeliggenhedsadresse |-> SampleAddress,
       stiftelsesDato |-> l[1], gyldigTil |-> l[2]] :
        c \in {Missing, Cvr1}, n \in {Missing, Novo}, b \in {NoBranche, Branche},
        l \in {<<Missing, Missing>>, <<Date1, Missing>>, <<Date1, Date2>>} }

Hits == { [_source |-> [Vrvirksomhed |-> c]] : c \in Companies }

SeqsUpTo(S, n) == UNION { [1..k -> S] : k \in 0..n }

----------------------------------------------------------------------------
(* Record normalizer *)

Raised(e) == [raised |-> e]
IsRaised(r) == "raised" \in DOMAIN r

\* phone, email, fax, website, employees, protected, bankrupt, status and the
\* legal-form fields are left out: no property checked here reads them.
format_company_data(company, cvr_number) ==
    LET a == company.nyesteBeliggenhedsadresse IN
    IF \/ company.navn = Missing
       \/ a.vejnavn = Missing
       \/ company.stiftelsesDato = Missing
       \/ company.nyesteHovedbranche.branchekode = Missing
       \/ company.nyesteHovedbranche.branchetekst = Missing
    THEN Raised("KeyError")
    ELSE IF \/ get_formatted_date(company.stiftelsesDato) = IndexError
            \/ /\ company.gyldigTil # Missing
               /\ get_formatted_date(company.gyldigTil) = IndexError
    THEN Raised("IndexError")
    ELSE [vat |-> cvr_number,
          name |-> company.navn,
          address |-> get_combined_address(a),
          zipcode |-> get_address_field(a, a.postnummer),
          startdate |-> get_formatted_date(company.stiftelsesDato),
          enddate |-> IF company.gyldigTil # Missing
                      THEN get_formatted_date(company.gyldigTil) ELSE None,
          industrycode |-> company.nyesteHovedbranche.branchekode,
          industrydesc |-> company.nyesteHovedbranche.branchetekst,
          version |-> 1]

----------------------------------------------------------------------------
(* Backend *)

Min(a, b) == IF a < b THEN a ELSE b

\* most hits the backend may put in its answer to the request body p: the
\* "size" of p, or the backend's own page size when p has none
SizeCap(p) == IF "size" \in DOMAIN p THEN p.size ELSE MaxHits

NOT_FOUND == [error |-> "NOT_FOUND"]

\* a JSON object that is not the hits envelope
NoHitsJson == [timed_out |-> TRUE]

\* the hits envelope: the backend returns the first min(total, size) hits
Envelopes(p) ==
    { [hits |-> [total |-> Len(h), hits |-> h]] :
        h \in SeqsUpTo(Hits, Min(MaxHits, SizeCap(p))) }

\* What http_client.post gives: a transport failure (httpx.RequestError), or
\* a response with a status code and a body that is JSON or not.
TransportFailure ==
    [transport_ok |-> FALSE, status_code |-> 0, is_json |-> FALSE, json |-> NoHitsJson]

PostResults(p) ==
    {TransportFailure}
    \cup { [transport_ok |-> TRUE, status_code |-> s, is_json |-> FALSE, json |-> NoHitsJson] :
             s \in {200, 404, 500} }
    \cup { [transport_ok |-> TRUE, status_code |-> 200, is_json |-> TRUE, json |-> j] :
             j \in {NoHitsJson} \cup Envelopes(p) }

----------------------------------------------------------------------------
(* Search orchestrator *)

Is2xx(status) == status >= 200 /\ status < 300

\* returns the parsed body, or the CVRAPIError it raises
handle_api_response(r) ==
    IF ~Is2xx(r.status_code)
    THEN IF r.status_code = 404 THEN [json |-> NOT_FOUND]
         ELSE [raised |-> "CVRAPIError", msg |-> "HTTP error occurred"]
    ELSE IF ~r.is_json
    THEN [raised |-> "CVRAPIError", msg |-> "Invalid JSON response"]
    ELSE [json |-> r.json]

\* how an invocation ends: a returned dict, a returned list or a raised exception
ReturnDict(v) == [kind |-> "return", type |-> "dict", val |-> v]
ReturnList(v) == [kind |-> "return", type |-> "list", val |-> v]
Raise(e) == [kind |-> "raise", type |-> "exception", val |-> e]
NoOutcome == [kind |-> "none", type |-> "none", val |-> "none"]


(* Request bodies, the payload of each search *)

payload_cvr_api(cvr_number) ==
    [_source |-> <<"Vrvirksomhed">>,
     query |-> [term |-> [field |-> "Vrvirksomhed.cvrNummer", value |-> cvr_number]]]

payload_by_name_no_size(company_name) ==
    [_source |-> <<"Vrvirksomhed">>,
     query |-> [match_phrase_prefix |->
                  [field |-> "Vrvirksomhed.virksomhedMetadata.nyesteNavn.navn",
                   value |-> company_name]]]

payload_by_name(company_name) ==
    [_source |-> <<"Vrvirksomhed">>,
     query |-> [match_phrase_prefix |->
                  [field |-> "Vrvirksomhed.virksomhedMetadata.nyesteNavn.navn",
                   value |-> company_name]],
     size |-> 100]

payload_by_fuzzy_name(company_name) ==
    [_source |-> <<"Vrvirksomhed">>,
     query |-> [multi_match |->
                  [query |-> company_name,
                   fields |-> <<"Vrvirksomhed.virksomhedMetadata.nyesteNavn.navn^2">>,
                   fuzziness |-> "AUTO"]],
     size |-> 100]

payload_by_email(email) ==
    [_source |-> <<"*">>,
     query |-> [match |-> [field |-> "Vrvirksomhed.elektroniskPost.kontaktoplysning",
                           value |-> email]],
     size |-> 100]

payload_by_email_domain(email_domain) ==
    [_source |-> <<"*">>,
     query |-> [match |-> [field |-> "Vrvirksomhed.elektroniskPost.kontaktoplysning",
                           value |-> <<"@">> \o email_domain]],
     size |-> 100]

payload_by_phone(phone_number) ==
    [_source |-> <<"*">>,
     query |-> [match |-> [field |-> "Vrvirksomhed.telefonNummer.kontaktoplysning",
                           value |-> phone_number]],
     size |-> 100]

(* The part of each search after the POST: r is what the POST gave.  Only *)
(* CVRAPIError is caught; every other exception leaves the function.      *)

search_cvr_api_result_last_hit(cvr_number, r) ==
    IF ~r.transport_ok THEN Raise("RequestError")
    ELSE LET h == handle_api_response(r) IN
         IF IsRaised(h) THEN ReturnDict([error |-> h.msg])
         ELSE IF "hits" \notin DOMAIN h.json THEN Raise("KeyError")
         ELSE IF h.json.hits.total = 0 THEN ReturnDict(NOT_FOUND)
         ELSE IF h.json.hits.hits = <<>> THEN Raise("IndexError")
         ELSE LET company == Last(h.json.hits.hits)._source.Vrvirksomhed
                  formatted == format_company_data(company, cvr_number)
              IN  IF IsRaised(formatted) THEN Raise(formatted.raised)
                  ELSE ReturnDict(formatted)

search_cvr_api_result(cvr_number, r) ==
    IF ~r.transport_ok THEN Raise("RequestError")
    ELSE LET h == handle_api_response(r) IN
         IF IsRaised(h) THEN ReturnDict([error |-> h.msg])
         ELSE IF "hits" \notin DOMAIN h.json THEN Raise("KeyError")
         ELSE IF h.json.hits.total = 0 THEN ReturnDict(NOT_FOUND)
         ELSE IF h.json.hits.hits = <<>> THEN Raise("IndexError")
         ELSE LET company == h.json.hits.hits[1]._source.Vrvirksomhed
                  formatted == format_company_data(company, cvr_number)
              IN  IF IsRaised(formatted) THEN Raise(formatted.raised)
                  ELSE ReturnDict(formatted)

\* the loop of the four searches that normalize with format_company_data
RECURSIVE FormatLoop(_, _)
FormatLoop(hits, companies) ==
    IF hits = <<>> THEN ReturnList(companies)
    ELSE LET company == Head(hits)._source.Vrvirksomhed IN
         IF company.cvrNummer = Missing THEN Raise("KeyError")
         ELSE LET formatted == format_company_data(company, company.cvrNummer) IN
              IF IsRaised(formatted) THEN Raise(formatted.raised)
              ELSE FormatLoop(Tail(hits), Append(companies, formatted))

list_search_result(r) ==
    IF ~r.transport_ok THEN Raise("RequestError")
    ELSE LET h == handle_api_response(r) IN
         IF IsRaised(h) THEN ReturnList(<<[error |-> h.msg]>>)
         ELSE IF "hits" \notin DOMAIN h.json THEN Raise("KeyError")
         ELSE FormatLoop(h.json.hits.hits, <<>>)

search_cvr_by_name_result(company_name, r) == list_search_result(r)
search_cvr_by_email_result(email, r) == list_search_result(r)
search_cvr_by_email_domain_result(email_domain, r) == list_search_result(r)
search_cvr_by_phone_result(phone_number, r) == list_search_result(r)

\* the dict the fuzzy search builds for one hit
fuzzy_company(company) ==
    [name |-> GetOr(company.navn, Unknown),
     cvr_number |-> Get(company.cvrNummer),
     industrycode |-> GetOr(company.nyesteHovedbranche.branchekode, Unknown),
     industrytext |-> GetOr(company.nyesteHovedbranche.branchetekst, Unknown)]

\* the loop of the fuzzy search
RECURSIVE FuzzyLoop(_, _)
FuzzyLoop(hits, companies) ==
    IF hits = <<>> THEN ReturnList(companies)
    ELSE FuzzyLoop(Tail(hits),
                   Append(companies, fuzzy_company(Head(hits)._source.Vrvirksomhed)))

search_cvr_by_fuzzy_name_result(company_name, r) ==
    IF ~r.transport_ok THEN Raise("RequestError")
    ELSE LET h == handle_api_response(r) IN
         IF IsRaised(h) THEN ReturnList(<<[error |-> h.msg]>>)
         ELSE LET hits == IF "hits" \in DOMAIN h.json THEN h.json.hits.hits ELSE <<>>
              IN  FuzzyLoop(hits, <<>>)

----------------------------------------------------------------------------
(* Inputs *)

CvrNumbers == {Cvr1, Cvr2}
Names == {Novo}
Emails == {<<"a", "@", "b", ".", "d", "k">>}
EmailDomains == {<<"b", ".", "d", "k">>}
Phones == {<<"1", "2", "3", "4", "5", "6", "7", "8">>}

OptionalValues(v) == {Missing, None, v}

Addresses ==
    { [vejnavn |-> vn, husnummerFra |-> hf, husnummerTil |-> ht,
       bogstavFra |-> bf, bogstavTil |-> bt, etage |-> e,
       postnummer |-> <<"8", "0", "0", "0">>] :
        vn \in {Missing, <<"V", "e", "j">>},
        hf \in OptionalValues(<<"1", "2">>), ht \in OptionalValues(<<"1", "4">>),
        bf \in OptionalValues(<<"A">>), bt \in OptionalValues(<<"C">>),
        e \in OptionalValues(<<"2">>) }

Years == {<<"2", "0", "2", "0">>, <<"1", "9", "9", "9">>, <<"2", "0", "0", "0">>}
Months == {<<"0", "1">>, <<"1", "2">>, <<"0", "7">>, <<"1", "0">>}
Days == {<<"3", "1">>, <<"0", "5">>, <<"1", "2">>, <<"2", "8">>}

IsoDates == { y \o <<"-">> \o m \o <<"-">> \o d : y \in Years, m \in Months, d \in Days }
OutDates == { d \o <<"/">> \o m \o <<" ", "-", " ">> \o y : y \in Years, m \in Months, d \in Days }

NoAddress == [vejnavn |-> Missing]

----------------------------------------------------------------------------
(* The search operations.  One action is one whole invocation: the request *)
(* body is built, the single POST is made (the backend's answer is the     *)
(* action's input) and the answer is interpreted.                          *)

search_cvr_api ==
    /\ pc = "idle"
    /\ \E cvr_number \in CvrNumbers :
         \E r \in PostResults(payload_cvr_api(cvr_number)) :
           /\ pc' = "done"
           /\ mode' = "search_cvr_api"
           /\ payload' = payload_cvr_api(cvr_number)
           /\ calls' = calls + 1
           /\ response' = r
           /\ outcome' = search_cvr_api_result(cvr_number, r)
    /\ UNCHANGED <<address, combined_address, date, formatted_date>>

search_cvr_by_name ==
    /\ pc = "idle"
    /\ \E company_name \in Names :
         \E r \in PostResults(payload_by_name(company_name)) :
           /\ pc' = "done"
           /\ mode' = "search_cvr_by_name"
           /\ payload' = payload_by_name(company_name)
           /\ calls' = calls + 1
           /\ response' = r
           /\ outcome' = search_cvr_by_name_result(company_name, r)
    /\ UNCHANGED <<address, combined_address, date, formatted_date>>

search_cvr_by_fuzzy_name ==
    /\ pc = "idle"
    /\ \E company_name \in Names :
         \E r \in PostResults(payload_by_fuzzy_name(company_name)) :
           /\ pc' = "done"
           /\ mode' = "search_cvr_by_fuzzy_name"
           /\ payload' = payload_by_fuzzy_name(company_name)
           /\ calls' = calls + 1
           /\ response' = r
           /\ outcome' = search_cvr_by_fuzzy_name_result(company_name, r)
    /\ UNCHANGED <<address, combined_address, date, formatted_date>>

search_cvr_by_email ==
    /\ pc = "idle"
    /\ \E email \in Emails :
         \E r \in PostResults(payload_by_email(email)) :
           /\ pc' = "done"
           /\ mode' = "search_cvr_by_email"
           /\ payload' = payload_by_email(email)
           /\ calls' = calls + 1
           /\ response' = r
           /\ outcome' = search_cvr_by_email_result(email, r)
    /\ UNCHANGED <<address, combined_address, date, formatted_date>>

search_cvr_by_email_domain ==
    /\ pc = "idle"
    /\ \E email_domain \in EmailDomains :
         \E r \in PostResults(payload_by_email_domain(email_domain)) :
           /\ pc' = "done"
           /\ mode' = "search_cvr_by_email_domain"
           /\ payload' = payload_by_email_domain(email_domain)
           /\ calls' = calls + 1
           /\ response' = r
           /\ outcome' = search_cvr_by_email_domain_result(email_domain, r)
    /\ UNCHANGED <<address, combined_address, date, formatted_date>>

search_cvr_by_phone ==
    /\ pc = "idle"
    /\ \E phone_number \in Phones :
         \E r \in PostResults(payload_by_phone(phone_number)) :
           /\ pc' = "done"
           /\ mode' = "search_cvr_by_phone"
           /\ payload' = payload_by_phone(phone_number)
           /\ calls' = calls + 1
           /\ response' = r
           /\ outcome' = search_cvr_by_phone_result(phone_number, r)
    /\ UNCHANGED <<address, combined_address, date, formatted_date>>

\* the caller takes the outcome; the next invocation starts fresh
NextRequest ==
    /\ pc = "done"
    /\ pc' = "idle"
    /\ mode' = "none"
    /\ payload' = [size |-> 0]
    /\ calls' = 0
    /\ response' = TransportFailure
    /\ outcome' = NoOutcome
    /\ UNCHANGED <<address, combined_address, date, formatted_date>>

Init ==
    /\ pc = "idle"
    /\ mode = "none"
    /\ payload = [size |-> 0]
    /\ calls = 0
    /\ response = TransportFailure
    /\ outcome = NoOutcome
    /\ address = NoAddress
    /\ combined_address = None
    /\ date = None
    /\ formatted_date = None

Next ==
    \/ search_cvr_api
    \/ search_cvr_by_name
    \/ search_cvr_by_fuzzy_name
    \/ search_cvr_by_email
    \/ search_cvr_by_email_domain
    \/ search_cvr_by_phone
    \/ NextRequest

Spec == Init /\ [][Next]_vars

----------------------------------------------------------------------------
(* get_combined_address applied to every address block *)

InitAddress ==
    /\ pc = "address"
    /\ mode = "none"
    /\ payload = [size |-> 0]
    /\ calls = 0
    /\ response = TransportFailure
    /\ outcome = NoOutcome
    /\ address \in Addresses
    /\ combined_address = None
    /\ date = None
    /\ formatted_date = None

CombineAddress ==
    /\ pc = "address"
    /\ pc' = "address_done"
    /\ combined_address' = get_combined_address(address)
    /\ UNCHANGED <<mode, payload, calls, response, outcome, address, date, formatted_date>>

NextAddress == CombineAddress

SpecAddress == InitAddress /\ [][NextAddress]_vars

----------------------------------------------------------------------------
(* get_formatted_date applied to source dates, to None and to its own output *)

InitDate ==
    /\ pc = "date"
    /\ mode = "none"
    /\ payload = [size |-> 0]
    /\ calls = 0
    /\ response = TransportFailure
    /\ outcome = NoOutcome
    /\ address = NoAddress
    /\ combined_address = None
    /\ date \in IsoDates \cup {None}
    /\ formatted_date = None

FormatDate ==
    /\ pc \in {"date", "date_again"}
    /\ pc' = IF pc = "date" THEN "date_done" ELSE "date_again_done"
    /\ formatted_date' = get_formatted_date(date)
    /\ UNCHANGED <<mode, payload, calls, response, outcome, address, combined_address, date>>

\* the output of one application is given to the function again
FeedBack ==
    /\ pc = "date_done"
    /\ pc' = "date_again"
    /\ date' = formatted_date
    /\ formatted_date' = None
    /\ UNCHANGED <<mode, payload, calls, response, outcome, address, combined_address>>

NextDate == FormatDate \/ FeedBack

SpecDate == InitDate /\ [][NextDate]_vars


----------------------------------------------------------------------------
(* Vocabulary of the properties *)

ListModes ==
    {"search_cvr_by_name", "search_cvr_by_fuzzy_name", "search_cvr_by_email",
     "search_cvr_by_email_domain", "search_cvr_by_phone"}

Done == pc = "done"

\* the POST was answered with 2xx and a body holding the hits envelope
Answered ==
    /\ Done
    /\ response.transport_ok
    /\ Is2xx(response.status_code)
    /\ response.is_json
    /\ "hits" \in DOMAIN response.json

AnsweredHits == response.json.hits.hits

IsErrorDict(d) == "error" \in DOMAIN d /\ d.error # "NOT_FOUND"

\* ErrorResult: an error dict carrying a message, bare for the identifier
\* lookup and as a list of one for the list-producing searches
IsErrorResult(o) ==
    /\ o.kind = "return"
    /\ IF mode = "search_cvr_api" THEN IsErrorDict(o.val)
       ELSE Len(o.val) = 1 /\ IsErrorDict(o.val[1])

IsNotFoundDict(d) == "error" \in DOMAIN d /\ d.error = "NOT_FOUND"

IsNotFound(o) ==
    /\ o.kind = "return"
    /\ IF mode = "search_cvr_api" THEN IsNotFoundDict(o.val)
       ELSE Len(o.val) = 1 /\ IsNotFoundDict(o.val[1])

\* a required key of the normalizer is absent from the record
LacksRequiredField(company) ==
    \/ company.cvrNummer = Missing
    \/ company.navn = Missing
    \/ company.stiftelsesDato = Missing
    \/ company.nyesteHovedbranche.branchekode = Missing

Present(v) == v # Missing /\ v # None

Count(c, s) == Cardinality({i \in 1..Len(s) : s[i] = c})

Contains(s, sub) ==
    \E i \in 0..(Len(s) - Len(sub)) : \A j \in 1..Len(sub) : s[i + j] = sub[j]

B2N(b) == IF b THEN 1 ELSE 0

----------------------------------------------------------------------------
(* C1: a transport failure of the POST, a non-2xx status other than 404, or *)
(* a body that is not the hits envelope never leaves a search as a raised   *)
(* exception: the search returns an ErrorResult.                            *)
C1_FailuresBecomeErrorResult ==
    ( /\ Done
      /\ \/ ~response.transport_ok
         \/ ~Is2xx(response.status_code) /\ response.status_code # 404
         \/ Is2xx(response.status_code) /\ ~response.is_json
         \/ Is2xx(response.status_code) /\ response.is_json
              /\ "hits" \notin DOMAIN response.json )
    => IsErrorResult(outcome)

(* C2: a backend answer with status 404 makes the search outcome NotFound, *)
(* neither an ErrorResult nor a raised exception.                          *)
C2_Status404IsNotFound ==
    (Done /\ response.transport_ok /\ response.status_code = 404)
    => IsNotFound(outcome)

(* C3: after a successful backend call the identifier lookup returns       *)
(* NOT_FOUND when the total is 0, and otherwise the outcome is exactly the *)
(* normalization of the first hit for the requested number, a failed       *)
(* normalization being the outcome when that hit cannot be normalized.     *)
C3_LookupFirstHitOrNotFound ==
    (Answered /\ mode = "search_cvr_api")
    => IF response.json.hits.total = 0
       THEN outcome.kind = "return" /\ IsNotFoundDict(outcome.val)
       ELSE LET n == format_company_data(AnsweredHits[1]._source.Vrvirksomhed,
                                         payload.query.term.value)
            IN  IF IsRaised(n)
                THEN outcome.kind = "raise" /\ outcome.val = n.raised
                ELSE outcome.kind = "return" /\ outcome.val = n

C3_Witness ==
    /\ Answered /\ mode = "search_cvr_api"
    /\ response.json.hits.total = 2
    /\ AnsweredHits[1] # AnsweredHits[2]
    /\ ~LacksRequiredField(AnsweredHits[1]._source.Vrvirksomhed)
    /\ outcome.kind = "return"
    /\ "vat" \in DOMAIN outcome.val
    /\ outcome.val.vat = Cvr2

\* the entry a list-producing search makes of one hit
EntryOf(company) ==
    IF mode = "search_cvr_by_fuzzy_name" THEN fuzzy_company(company)
    ELSE format_company_data(company, company.cvrNummer)

(* C4: a list-producing search answered with k hits returns a list of      *)
(* exactly k entries, entry i made of hit i; k = 0 gives the empty list.   *)
C4_ListHasOneEntryPerHit ==
    (Answered /\ mode \in ListModes)
    => /\ outcome.kind = "return"
       /\ Len(outcome.val) = Len(AnsweredHits)
       /\ \A i \in 1..Len(AnsweredHits) :
            outcome.val[i] = EntryOf(AnsweredHits[i]._source.Vrvirksomhed)

CallFailed ==
    \/ ~response.transport_ok
    \/ ~Is2xx(response.status_code) /\ response.status_code # 404

(* C5: every search invocation makes exactly one outbound call, and when   *)
(* that call fails the invocation ends with an ErrorResult.                *)
C5_OneCallAndFailureIsErrorResult ==
    Done => /\ calls = 1
            /\ CallFailed => IsErrorResult(outcome)

(* C6: with a street name present, the combined address has a '-' only for *)
(* a present husnummerTil or bogstavTil, a ', ' only for a present etage,  *)
(* and an absent sub-field leaves no trailing or doubled separator and no  *)
(* placeholder text.                                                       *)
C6_NoStraySeparators ==
    (pc = "address_done" /\ address.vejnavn # Missing)
    => LET out == combined_address IN
       /\ Count("-", out) = B2N(Present(address.husnummerTil))
                            + B2N(Present(address.bogstavTil))
       /\ Count(",", out) = B2N(Present(address.etage))
       /\ Last(out) \notin {" ", "-", ","}
       /\ ~Contains(out, <<" ", ",">>)
       /\ ~Contains(out, <<" ", " ">>)
       /\ ~Contains(out, <<" ", "-">>)
       /\ ~Contains(out, <<"N", "o", "n", "e">>)

\* date is y-m-d and formatted_date is d/m - y
FormattedFromIso ==
    \E y \in Years, m \in Months, d \in Days :
        /\ date = y \o <<"-">> \o m \o <<"-">> \o d
        /\ formatted_date = d \o <<"/">> \o m \o <<" ", "-", " ">> \o y

DateApplied == pc \in {"date_done", "date_again_done"}

(* C7 as stated: 'YYYY-MM-DD' becomes 'DD/MM - YYYY', and a string already *)
(* of the form 'DD/MM - YYYY' is returned unchanged.                       *)
C7_Original_IdempotentOnOutput ==
    DateApplied
    => /\ date \in IsoDates => FormattedFromIso
       /\ date \in OutDates => formatted_date = date

(* C7: 'YYYY-MM-DD' becomes 'DD/MM - YYYY'; a string already of the form   *)
(* 'DD/MM - YYYY' is not returned: it has two '-'-separated parts only and *)
(* the function fails with IndexError.                                     *)
C7_FormatsIsoAndFailsOnOutput ==
    DateApplied
    => /\ date \in IsoDates => FormattedFromIso
       /\ date \in OutDates => formatted_date = IndexError

C7_Witness ==
    /\ pc = "date_again_done"
    /\ date = <<"3", "1", "/", "0", "1", " ", "-", " ", "2", "0", "2", "0">>
    /\ formatted_date = IndexError

(* C8: in a list-producing search a hit that lacks a required field does   *)
(* not abort the batch: the search still returns a result.                 *)
C8_BadHitDoesNotAbortBatch ==
    ( /\ Answered /\ mode \in ListModes
      /\ \E i \in 1..Len(AnsweredHits) :
            LacksRequiredField(AnsweredHits[i]._source.Vrvirksomhed) )
    => outcome.kind = "return"

\* the hits a search reads: the first one for the identifier lookup
HitsRead ==
    IF mode # "search_cvr_api" THEN AnsweredHits
    ELSE IF response.json.hits.total = 0 \/ AnsweredHits = <<>> THEN <<>>
    ELSE <<AnsweredHits[1]>>

(* C9: in every search mode a hit without the latest-name field ends in a  *)
(* mapping failure; no record is returned with a default in place of the   *)
(* name.                                                                   *)
C9_MissingNameIsMappingFailure ==
    ( /\ Answered
      /\ \E i \in 1..Len(HitsRead) : HitsRead[i]._source.Vrvirksomhed.navn = Missing )
    => outcome.kind = "raise" /\ outcome.val = "KeyError"

(* C10 as stated: every request body carries an explicit size, 1 for the   *)
(* identifier lookup and 100 for the list-producing searches.              *)
C10_Original_ExplicitSize ==
    Done => /\ "size" \in DOMAIN payload
            /\ payload.size = IF mode = "search_cvr_api" THEN 1 ELSE 100

(* C10: the request body of each list-producing search carries size 100;   *)
(* the request body of the identifier lookup carries no size at all.       *)
C10_SizeOnlyInListBodies ==
    Done => IF mode = "search_cvr_api" THEN "size" \notin DOMAIN payload
            ELSE "size" \in DOMAIN payload /\ payload.size = 100

C10_Witness ==
    /\ Answered /\ mode = "search_cvr_api"
    /\ "size" \notin DOMAIN payload
    /\ Len(AnsweredHits) = 2
    /\ outcome.kind = "return"

====
